---- MODULE Spec2Model ----
(***************************************************************************)
(* Model of gym_vrep/envs/ergo_fight_static_env.py: the ErgoFightStaticEnv *)
(* adapter (reset / step / close / render), its hit-cooldown counter and   *)
(* its joint-space normalisation.  The external simulator (vrepper) is the *)
(* environment: its readings (collision, joint angles) are chosen          *)
(* nondeterministically.  Python floats are modelled as IEEE-754 binary64  *)
(* values with round-to-nearest-even, because the normalisation claims are *)
(* about the values the arithmetic really produces.                        *)
(***************************************************************************)
EXTENDS Integers, Sequences, FiniteSets

\* ------------------------------------------------------------------------
\* Natural numbers of arbitrary size: little-endian sequences of limbs in
\* base LimbBase, without leading (most significant) zero limbs; 0 is <<>>.
\* They carry the 53-bit significands of binary64 values.
\* ------------------------------------------------------------------------
LimbBits == 12
LimbBase == 4096

RECURSIVE Pow2(_)
Pow2(n) == IF n = 0 THEN 1 ELSE 2 * Pow2(n - 1)

Abs(n) == IF n < 0 THEN -n ELSE n

RECURSIVE NTrim(_)
NTrim(a) ==
    IF a = <<>> THEN <<>>
    ELSE IF a[Len(a)] = 0 THEN NTrim(SubSeq(a, 1, Len(a) - 1)) ELSE a

RECURSIVE NFromInt(_)
NFromInt(n) == IF n = 0 THEN <<>> ELSE <<n % LimbBase>> \o NFromInt(n \div LimbBase)

NLimb(a, i) == IF i >= 1 /\ i <= Len(a) THEN a[i] ELSE 0

RECURSIVE NAddC(_, _, _, _)
NAddC(a, b, i, carry) ==
    IF i > Len(a) /\ i > Len(b)
    THEN (IF carry = 0 THEN <<>> ELSE <<carry>>)
    ELSE LET t == NLimb(a, i) + NLimb(b, i) + carry
         IN  <<t % LimbBase>> \o NAddC(a, b, i + 1, t \div LimbBase)

NAdd(a, b) == NAddC(a, b, 1, 0)

\* a - b for a >= b
RECURSIVE NSubB(_, _, _, _)
NSubB(a, b, i, borrow) ==
    IF i > Len(a) THEN <<>>
    ELSE LET t == NLimb(a, i) - NLimb(b, i) - borrow
         IN  IF t < 0 THEN <<t + LimbBase>> \o NSubB(a, b, i + 1, 1)
                      ELSE <<t>> \o NSubB(a, b, i + 1, 0)

NSub(a, b) == NTrim(NSubB(a, b, 1, 0))

\* -1, 0, 1 as a < b, a = b, a > b
RECURSIVE NCmpAt(_, _, _)
NCmpAt(a, b, i) ==
    IF i = 0 THEN 0
    ELSE IF a[i] < b[i] THEN -1
    ELSE IF a[i] > b[i] THEN 1
    ELSE NCmpAt(a, b, i - 1)

NCmp(a, b) ==
    IF Len(a) < Len(b) THEN -1
    ELSE IF Len(a) > Len(b) THEN 1
    ELSE NCmpAt(a, b, Len(a))

\* a * c for a small c (0 <= c < LimbBase)
RECURSIVE NMulC(_, _, _, _)
NMulC(a, c, i, carry) ==
    IF i > Len(a)
    THEN (IF carry = 0 THEN <<>> ELSE <<carry>>)
    ELSE LET t == a[i] * c + carry
         IN  <<t % LimbBase>> \o NMulC(a, c, i + 1, t \div LimbBase)

NMulSmall(a, c) == NTrim(NMulC(a, c, 1, 0))

\* <<quotient, remainder>> of a by a small c (0 < c < LimbBase)
RECURSIVE NDivC(_, _, _, _)
NDivC(a, c, i, rem) ==
    IF i = 0 THEN <<<<>>, rem>>
    ELSE LET t    == rem * LimbBase + a[i]
             rest == NDivC(a, c, i - 1, t % c)
         IN  <<Append(rest[1], t \div c), rest[2]>>

NDivSmall(a, c) ==
    LET r == NDivC(a, c, Len(a), 0) IN <<NTrim(r[1]), r[2]>>

NBitLenLimb(x) == CHOOSE k \in 0..LimbBits : Pow2(k) > x /\ (k = 0 \/ Pow2(k - 1) <= x)

NBitLen(a) == IF a = <<>> THEN 0 ELSE (Len(a) - 1) * LimbBits + NBitLenLimb(a[Len(a)])

\* a * 2^s
NShl(a, s) ==
    IF a = <<>> THEN <<>>
    ELSE [j \in 1..(s \div LimbBits) |-> 0] \o NMulSmall(a, Pow2(s % LimbBits))

\* <<a div 2^s, whether a nonzero bit was shifted out>>
NShrParts(low, qr) == << qr[1], qr[2] # 0 \/ NTrim(low) # <<>> >>

NShr(a, s) ==
    IF s \div LimbBits >= Len(a) THEN << <<>>, a # <<>> >>
    ELSE NShrParts(SubSeq(a, 1, s \div LimbBits),
                   NDivSmall(SubSeq(a, s \div LimbBits + 1, Len(a)), Pow2(s % LimbBits)))

NOdd(a) == a # <<>> /\ a[1] % 2 = 1

\* ------------------------------------------------------------------------
\* Python floats (IEEE-754 binary64, round to nearest, ties to even).
\* A float is [sg, m, e] with value sg * m * 2^e; a nonzero float is kept
\* normalised with a significand m of exactly Precision bits, so two floats
\* are equal exactly when their records are equal.  The exponent range of
\* binary64 (overflow, subnormals) is never approached by joint angles.
\* ------------------------------------------------------------------------
Precision == 53

FZero == [sg |-> 1, m |-> <<>>, e |-> 0]

\* The normalised float of value sg * m * 2^e, for a significand m of L bits
\* that fits the format.
FNormal(sg, m, e, L) ==
    [sg |-> sg,
     m  |-> IF L > Precision THEN NShr(m, L - Precision)[1] ELSE NShl(m, Precision - L),
     e  |-> e - (Precision - L)]

FNormalize(sg, m, e) == FNormal(sg, m, e, NBitLen(m))

\* Ties to even: q is the kept significand, guard the first dropped bit and
\* st tells that a later dropped bit is nonzero.
FRoundUp(sg, e, q, guard, st) ==
    FNormalize(sg, IF guard /\ (st \/ NOdd(q)) THEN NAdd(q, << 1 >>) ELSE q, e)

\* g is <<kept significand followed by the guard bit, sticky>>
FRoundCut(sg, e, sticky, g) ==
    FRoundUp(sg, e, NShr(g[1], 1)[1], NOdd(g[1]), g[2] \/ sticky)

FRoundLen(prec, sg, m, e, sticky, L) ==
    IF L <= prec THEN FNormal(sg, m, e, L)
    ELSE FRoundCut(sg, e + (L - prec), sticky, NShr(m, L - prec - 1))

\* Rounds the exact value sg * (m + fraction) * 2^e, where sticky tells that
\* the fraction below m is nonzero, to the nearest value with a significand
\* of prec bits, and returns it in normalised form.
FRoundTo(prec, sg, m, e, sticky) ==
    IF m = <<>> THEN FZero ELSE FRoundLen(prec, sg, m, e, sticky, NBitLen(m))

FRound(sg, m, e, sticky) == FRoundTo(Precision, sg, m, e, sticky)

FromInt(n) == FRound(IF n < 0 THEN -1 ELSE 1, NFromInt(Abs(n)), 0, FALSE)

FNeg(x) == IF x.m = <<>> THEN x ELSE [x EXCEPT !.sg = -x.sg]

\* x + y, from the significands aligned to the common exponent e
FAddSigned(sx, mx, sy, my, e, c) ==
    IF c = 0 THEN FZero
    ELSE FRound(IF c > 0 THEN sx ELSE sy,
                IF c > 0 THEN NSub(mx, my) ELSE NSub(my, mx), e, FALSE)

FAddAligned(sx, mx, sy, my, e) ==
    IF sx = sy THEN FRound(sx, NAdd(mx, my), e, FALSE)
    ELSE FAddSigned(sx, mx, sy, my, e, NCmp(mx, my))

FAddAt(x, y, e) == FAddAligned(x.sg, NShl(x.m, x.e - e), y.sg, NShl(y.m, y.e - e), e)

FAdd(x, y) ==
    IF x.m = <<>> THEN y
    ELSE IF y.m = <<>> THEN x
    ELSE FAddAt(x, y, IF x.e < y.e THEN x.e ELSE y.e)

FSub(x, y) == FAdd(x, FNeg(y))

\* -1, 0, 1 as x < y, x = y, x > y (normalised significands: floats of one
\* sign are ordered by exponent, then by significand)
FCmpMag(x, y) ==
    IF x.m = <<>> /\ y.m = <<>> THEN 0
    ELSE IF x.m = <<>> THEN -1
    ELSE IF y.m = <<>> THEN 1
    ELSE IF x.e < y.e THEN -1
    ELSE IF x.e > y.e THEN 1
    ELSE NCmp(x.m, y.m)

FCmp(x, y) ==
    LET sx == IF x.m = <<>> THEN 0 ELSE x.sg
        sy == IF y.m = <<>> THEN 0 ELSE y.sg
    IN  IF sx < sy THEN -1
        ELSE IF sx > sy THEN 1
        ELSE IF sx >= 0 THEN FCmpMag(x, y)
        ELSE FCmpMag(y, x)

FLe(x, y) == FCmp(x, y) <= 0

\* x * c and x / c for a Python int c of small magnitude (the int is exactly
\* representable, so the product and quotient are those of float(c))
FMulInt(x, c) ==
    IF c = 0 THEN FZero
    ELSE FRound(IF c < 0 THEN -x.sg ELSE x.sg, NMulSmall(x.m, Abs(c)), x.e, FALSE)

FDivQuot(sg, qr, e) == FRound(sg, qr[1], e, qr[2] # 0)

FDivInt(x, c) ==
    FDivQuot(IF c < 0 THEN -x.sg ELSE x.sg,
             NDivSmall(NShl(x.m, 2 * LimbBits), Abs(c)), x.e - 2 * LimbBits)

FAddInt(x, c) == FAdd(x, FromInt(c))

FSubInt(x, c) == FSub(x, FromInt(c))

\* numpy astype('float32'): rounds to a 24-bit significand
astype_float32(x) == FRoundTo(24, x.sg, x.m, x.e, FALSE)

\* ------------------------------------------------------------------------
\* Configuration tables
\* ------------------------------------------------------------------------
Joints == 1..6

\* gym_vrep/envs/constants.py (imported at line 8): per-joint (min, max) in
\* degrees.
JOINT_LIMITS ==
    << <<-150, 150>>, <<-90, 125>>, <<-90, 90>>,
       <<-90, 90>>, <<-90, 90>>, <<-90, 90>> >>

REST_POS == <<0, 0, 0, 0, 0, 0>>

RANDOM_NOISE ==
    << <<-90, 90>>, <<-30, 30>>, <<-30, 30>>,
       <<-45, 45>>, <<-30, 30>>, <<-30, 30>> >>

INVULNERABILITY_AFTER_HIT == 3

\* self.diffs, set once in __init__
diffs == [i \in Joints |-> JOINT_LIMITS[i][2] - JOINT_LIMITS[i][1]]

\* ------------------------------------------------------------------------
\* Normalisation
\* ------------------------------------------------------------------------
\* _normalize without the final shift to [-1, 1] (line 134 dropping "- 1")
_normalize_unshifted(pos) ==
    [i \in Joints |->
        FMulInt(FDivInt(FSubInt(pos[i], JOINT_LIMITS[i][1]), diffs[i]), 2)]

_normalize(pos) ==
    [i \in Joints |->
        LET shifted == FDivInt(FSubInt(pos[i], JOINT_LIMITS[i][1]), diffs[i])
        IN  FSubInt(FMulInt(shifted, 2), 1)]

_denormalize(actions) ==
    [i \in Joints |->
        LET shifted == FDivInt(FAddInt(actions[i], 1), 2)
        IN  FAddInt(FMulInt(shifted, diffs[i]), JOINT_LIMITS[i][1])]

\* the clamp of line 147 left out
clip_missing(actions, lo, hi) == actions

Fmax(a, b) == IF FLe(a, b) THEN b ELSE a

Fmin(a, b) == IF FLe(b, a) THEN b ELSE a

\* np.clip(actions, -1, 1): minimum(maximum(a, -1), 1) per component
clip(actions, lo, hi) ==
    [i \in Joints |-> Fmin(Fmax(actions[i], FromInt(lo)), FromInt(hi))]

\* ------------------------------------------------------------------------
\* Bounds and inputs of the model
\* ------------------------------------------------------------------------
MaxResets == 2
MaxSteps == 6
MaxCloses == 2
HistLen == 5
MaxGrid == 60

\* the float nearest to n / d (what a decimal literal or a sensor reading of
\* that value is)
Dec(n, d) == FDivInt(FromInt(n), d)

\* action vectors handed to step, in and out of [-1, 1]
ActionVectors ==
    { [i \in Joints |-> FromInt(-1)],
      [i \in Joints |-> FromInt(1)],
      << Dec(-25, 10), FromInt(3), Dec(11, 10), Dec(5, 10), FromInt(1), Dec(-101, 100) >>,
      << Dec(1, 10), Dec(-3, 10), Dec(7, 10), FZero, Dec(1, 3), Dec(-999, 1000) >> }

\* what the simulator reports for arm A: joint angles (degrees) and velocities
SimReadings ==
    { [pos |-> [i \in Joints |-> FZero], vel |-> [i \in Joints |-> FZero]],
      [pos |-> << FromInt(-123), Dec(455, 10), FromInt(90), FromInt(-90), Dec(123, 10), Dec(1, 10) >>,
       vel |-> << Dec(5, 10), FromInt(-2), FZero, Dec(1, 100), FromInt(1), FZero >>] }

\* np.random.randint(low, high): the integers low .. high - 1
randint(low, high) == low .. (high - 1)

\* noise vectors tried at reset: those of the candidates that randint can draw
NoiseVectors ==
    { n \in { [i \in Joints |-> RANDOM_NOISE[i][1]],
              [i \in Joints |-> RANDOM_NOISE[i][2] - 1],
              [i \in Joints |-> RANDOM_NOISE[i][2]],
              [i \in Joints |-> IF i % 2 = 1 THEN RANDOM_NOISE[i][1]
                                             ELSE RANDOM_NOISE[i][2] - 1],
              [i \in Joints |-> 0] } :
        \A i \in Joints : n[i] \in randint(RANDOM_NOISE[i][1], RANDOM_NOISE[i][2]) }

\* native angle vectors for the normalise / denormalise round trip: tenths of
\* a degree spread over [min_i, max_i], both ends included
GridAngle(i, k) ==
    IF k = 0 THEN FromInt(JOINT_LIMITS[i][1])
    ELSE IF k = 1 THEN FromInt(JOINT_LIMITS[i][2])
    ELSE Dec(10 * JOINT_LIMITS[i][1] + ((k * (30 + 7 * i)) % (10 * diffs[i] + 1)), 10)

NormInputs == { [i \in Joints |-> GridAngle(i, k)] : k \in 0..MaxGrid }

\* ------------------------------------------------------------------------
\* State
\* ------------------------------------------------------------------------
VARIABLES
    frames_after_hit,   \* self.frames_after_hit
    done,               \* self.done: <<>> while the attribute does not exist, else <<value>>
    observation,        \* self.observation: <<>> while the attribute does not exist
    venv,               \* the simulator connection: session state and number of simulation advances
    targetA,            \* last position targets commanded to self.motors[0] (<<>>: none yet)
    targetB,            \* last position targets commanded to self.motors[1] (<<>>: none yet)
    calls,              \* the simulator calls issued by the last operation, in order
    ret,                \* what the last operation returned, or that it raised
    hist,               \* outcomes of the last HistLen steps of the current episode
    nResets,            \* number of reset calls so far
    nSteps,             \* number of step calls so far
    nCloses,            \* number of close calls so far
    rt                  \* the normalise / denormalise round trip under test

vars == << frames_after_hit, done, observation, venv, targetA, targetB,
           calls, ret, hist, nResets, nSteps, nCloses, rt >>

envVars == << frames_after_hit, done, observation, venv, targetA, targetB,
              calls, ret, hist, nResets, nSteps, nCloses >>

SettleSteps == 15

ARM_A == 1
ARM_B == 2

Call(name, arm, motor) == << name, arm, motor >>

\* result record of an operation; reward, done, actions and colliding are
\* meaningful for op = "step", frames_before (the counter when the operation
\* began) for "step" and "reset"
Result(op, raised, reward, flag, obs, actions, colliding, before) ==
    [ op |-> op, raised |-> raised, reward |-> reward, done |-> flag,
      observation |-> obs, actions |-> actions, colliding |-> colliding,
      frames_before |-> before ]

PlainResult(op, obs) == Result(op, FALSE, 0, <<>>, obs, <<>>, FALSE, -1)

\* ------------------------------------------------------------------------
\* Helpers of the adapter
\* ------------------------------------------------------------------------
\* line 108 written with > instead of >=
_getReward_late_reset(colliding, fah) ==
    IF colliding /\ fah = -1
    THEN [reward |-> 1, frames_after_hit |-> 0]
    ELSE LET inc == IF fah >= 0 THEN fah + 1 ELSE fah
         IN  [reward |-> 0,
              frames_after_hit |-> IF inc > INVULNERABILITY_AFTER_HIT THEN -1 ELSE inc]

\* line 106 without its guard: the counter advances from -1 too
_getReward_unguarded(colliding, fah) ==
    IF colliding /\ fah = -1
    THEN [reward |-> 1, frames_after_hit |-> 0]
    ELSE [reward |-> 0,
          frames_after_hit |-> IF fah + 1 >= INVULNERABILITY_AFTER_HIT THEN -1 ELSE fah + 1]

\* line 101 left out: a scored hit does not start the cooldown
_getReward_no_cooldown(colliding, fah) ==
    IF colliding /\ fah = -1
    THEN [reward |-> 1, frames_after_hit |-> fah]
    ELSE LET inc == IF fah >= 0 THEN fah + 1 ELSE fah
         IN  [reward |-> 0,
              frames_after_hit |-> IF inc >= INVULNERABILITY_AFTER_HIT THEN -1 ELSE inc]

\* line 108 comparing against one frame less: the cooldown ends a step early
_getReward_short_window(colliding, fah) ==
    IF colliding /\ fah = -1
    THEN [reward |-> 1, frames_after_hit |-> 0]
    ELSE LET inc == IF fah >= 0 THEN fah + 1 ELSE fah
         IN  [reward |-> 0,
              frames_after_hit |-> IF inc >= INVULNERABILITY_AFTER_HIT - 1 THEN -1 ELSE inc]

\* the else branch of line 105 taken only without contact, as its comment
\* says: the counter is frozen while the swords touch
_getReward_frozen_in_contact(colliding, fah) ==
    IF colliding /\ fah = -1
    THEN [reward |-> 1, frames_after_hit |-> 0]
    ELSE IF colliding
    THEN [reward |-> 0, frames_after_hit |-> fah]
    ELSE LET inc == IF fah >= 0 THEN fah + 1 ELSE fah
         IN  [reward |-> 0,
              frames_after_hit |-> IF inc >= INVULNERABILITY_AFTER_HIT THEN -1 ELSE inc]

\* _getReward: the reward and the new counter, from the collision reading
\* and the current counter
_getReward(colliding, fah) ==
    IF colliding /\ fah = -1
    THEN [reward |-> 1, frames_after_hit |-> 0]
    ELSE LET inc == IF fah >= 0 THEN fah + 1 ELSE fah
         IN  [reward |-> 0,
              frames_after_hit |-> IF inc >= INVULNERABILITY_AFTER_HIT THEN -1 ELSE inc]

\* line 127 iterating over self.motors[1]: the action drives arm B
_gotoPos_other_arm(pos, prevA, prevB) == << prevA, [i \in Joints |-> pos[i]] >>

\* _gotoPos: the targets commanded, <<arm A, arm B>>, given the previous ones
_gotoPos(pos, prevA, prevB) == << [i \in Joints |-> pos[i]], prevB >>

gotoCalls(arm) == [i \in Joints |-> Call("set_position_target", arm, i)]

\* line 85 adding the drawn offset twice
randomize_doubled(noise) == [i \in Joints |-> REST_POS[i] + noise[i] + noise[i]]

\* randomize: the targets commanded to arm B for a drawn noise vector
randomize(noise) == [i \in Joints |-> REST_POS[i] + noise[i]]

\* lines 114-122 of _self_observe: normalised positions and raw velocities,
\* stacked and cast to float32
joint_vel(reading) ==
    LET pos == _normalize(reading.pos)
    IN  [j \in 1..12 |-> astype_float32(IF j <= 6 THEN pos[j] ELSE reading.vel[j - 6])]

\* joint_vel for each simulator reading
observed == [r \in SimReadings |-> joint_vel(r)]

\* _self_observe: the observation built from a simulator reading taken at
\* simulation advance number frame (the camera image is identified by it)
_self_observe(reading, frame) ==
    [cam_image |-> frame, joint_vel |-> observed[reading]]

observeCalls ==
    [j \in 1..12 |-> IF j % 2 = 1 THEN Call("get_joint_angle", ARM_A, (j + 1) \div 2)
                                  ELSE Call("get_joint_velocity", ARM_A, j \div 2)]
    \o << Call("get_image", 0, 0) >>

\* lines 147-148 for each action vector: clamp, then scale to joint angles
stepTargets == [a \in ActionVectors |-> _denormalize(clip(a, -1, 1))]

LastN(seq, n) == IF Len(seq) <= n THEN seq ELSE SubSeq(seq, Len(seq) - n + 1, Len(seq))

\* ------------------------------------------------------------------------
\* Initial state: after __init__ (which runs _startEnv)
\* ------------------------------------------------------------------------
startEnvCalls ==
    << Call("start", 0, 0), Call("load_scene", 0, 0) >>
    \o [j \in 1..12 |-> Call("get_object_by_name", ((j - 1) \div 6) + 1, ((j - 1) % 6) + 1)]
    \o << Call("get_collision_object", 0, 0), Call("get_object_by_name", 0, 0) >>

RtIdle == [pc |-> "idle", pos |-> <<>>, norm |-> <<>>, out |-> <<>>]

EnvInit ==
    /\ frames_after_hit = -1
    /\ done = <<>>
    /\ observation = <<>>
    /\ venv = [session |-> "open", simulation |-> "stopped", steps |-> 0]
    /\ targetA = <<>>
    /\ targetB = <<>>
    /\ calls = startEnvCalls
    /\ ret = PlainResult("init", <<>>)
    /\ hist = <<>>
    /\ nResets = 0
    /\ nSteps = 0
    /\ nCloses = 0

Init == EnvInit /\ rt = RtIdle

\* ------------------------------------------------------------------------
\* Operations
\* ------------------------------------------------------------------------
\* _restPos: clears the flag, restarts the simulation in synchronous mode,
\* commands both arms and lets the pose settle
\* the settle loop of lines 78-79 running one step short
_restPos_short_settle(noise) ==
    /\ done' = << FALSE >>
    /\ targetA' = [i \in Joints |-> FromInt(REST_POS[i])]
    /\ targetB' = randomize(noise)
    /\ venv' = [venv EXCEPT !.simulation = "sync", !.steps = @ + SettleSteps - 1]

_restPos(noise) ==
    /\ done' = << FALSE >>
    /\ targetA' = [i \in Joints |-> FromInt(REST_POS[i])]
    /\ targetB' = randomize(noise)
    /\ venv' = [venv EXCEPT !.simulation = "sync", !.steps = @ + SettleSteps]

restPosCalls ==
    << Call("stop_simulation", 0, 0), Call("start_simulation_sync", 0, 0) >>
    \o gotoCalls(ARM_A) \o gotoCalls(ARM_B)
    \o [j \in 1..SettleSteps |-> Call("step_blocking_simulation", 0, 0)]

\* _reset with lines 90 and 91 swapped: the observation is captured before
\* the rest pose is commanded and settled
_reset_observes_first(noise, reading) ==
    /\ venv.session = "open"
    /\ nResets < MaxResets
    /\ _restPos(noise)
    /\ observation' = _self_observe(reading, venv.steps)
    /\ frames_after_hit' = -1
    /\ calls' = observeCalls \o restPosCalls
    /\ ret' = Result("reset", FALSE, 0, <<>>, observation', <<>>, FALSE, frames_after_hit)
    /\ hist' = <<>>
    /\ nResets' = nResets + 1
    /\ UNCHANGED << nSteps, nCloses, rt >>

\* _reset with line 92 left out: the counter survives the reset
_reset_keeps_counter(noise, reading) ==
    /\ venv.session = "open"
    /\ nResets < MaxResets
    /\ _restPos(noise)
    /\ observation' = _self_observe(reading, venv'.steps)
    /\ calls' = restPosCalls \o observeCalls
    /\ ret' = Result("reset", FALSE, 0, <<>>, observation', <<>>, FALSE, frames_after_hit)
    /\ hist' = <<>>
    /\ nResets' = nResets + 1
    /\ UNCHANGED << frames_after_hit, nSteps, nCloses, rt >>

\* _reset
_reset(noise, reading) ==
    /\ venv.session = "open"
    /\ nResets < MaxResets
    /\ _restPos(noise)
    /\ observation' = _self_observe(reading, venv'.steps)
    /\ frames_after_hit' = -1
    /\ calls' = restPosCalls \o observeCalls
    /\ ret' = Result("reset", FALSE, 0, <<>>, observation', <<>>, FALSE, frames_after_hit)
    /\ hist' = <<>>
    /\ nResets' = nResets + 1
    /\ UNCHANGED << nSteps, nCloses, rt >>

\* _step with lines 152 and 153 swapped: the observation is read before
\* the simulator is advanced
_step_observes_first(actions, colliding, reading) ==
    LET goto == _gotoPos(stepTargets[actions], targetA, targetB)
        rew  == _getReward(colliding, frames_after_hit)
    IN  /\ venv.session = "open"
        /\ nSteps < MaxSteps
        /\ targetA' = goto[1]
        /\ targetB' = goto[2]
        /\ venv' = [venv EXCEPT !.steps = @ + 1]
        /\ observation' = _self_observe(reading, venv.steps)
        /\ frames_after_hit' = rew.frames_after_hit
        /\ calls' = gotoCalls(ARM_A) \o observeCalls
                    \o << Call("step_blocking_simulation", 0, 0), Call("is_colliding", 0, 0) >>
        /\ ret' = Result("step", done = <<>>, rew.reward, done, observation',
                         actions, colliding, frames_after_hit)
        /\ hist' = LastN(Append(hist, [colliding |-> colliding, reward |-> rew.reward,
                                        raised |-> done = <<>>,
                                        frames_after_hit |-> rew.frames_after_hit]), HistLen)
        /\ nSteps' = nSteps + 1
        /\ UNCHANGED << done, nResets, nCloses, rt >>

\* _step; the result tuple is built left to right, so _getReward has run
\* when reading self.done raises AttributeError (no reset yet)
_step(actions, colliding, reading) ==
    LET goto == _gotoPos(stepTargets[actions], targetA, targetB)
        rew  == _getReward(colliding, frames_after_hit)
    IN  /\ venv.session = "open"
        /\ nSteps < MaxSteps
        /\ targetA' = goto[1]
        /\ targetB' = goto[2]
        /\ venv' = [venv EXCEPT !.steps = @ + 1]
        /\ observation' = _self_observe(reading, venv'.steps)
        /\ frames_after_hit' = rew.frames_after_hit
        /\ calls' = gotoCalls(ARM_A) \o << Call("step_blocking_simulation", 0, 0) >>
                    \o observeCalls \o << Call("is_colliding", 0, 0) >>
        /\ ret' = Result("step", done = <<>>, rew.reward, done, observation',
                         actions, colliding, frames_after_hit)
        /\ hist' = LastN(Append(hist, [colliding |-> colliding, reward |-> rew.reward,
                                        raised |-> done = <<>>,
                                        frames_after_hit |-> rew.frames_after_hit]), HistLen)
        /\ nSteps' = nSteps + 1
        /\ UNCHANGED << done, nResets, nCloses, rt >>

\* _close: stop_simulation, then end, whenever it is called (there is no
\* closed flag).  What the binding does with calls on a session that has
\* already ended is outside this repository: it either tolerates them or the
\* first of them raises.  reset and step are modelled on an open session only.
_close(tolerated) ==
    /\ nCloses < MaxCloses
    /\ IF venv.session = "open"
       THEN /\ venv' = [venv EXCEPT !.simulation = "stopped", !.session = "ended"]
            /\ calls' = << Call("stop_simulation", 0, 0), Call("end", 0, 0) >>
            /\ ret' = PlainResult("close", <<>>)
       ELSE /\ venv' = venv
            /\ calls' = IF tolerated
                        THEN << Call("stop_simulation", 0, 0), Call("end", 0, 0) >>
                        ELSE << Call("stop_simulation", 0, 0) >>
            /\ ret' = Result("close", ~tolerated, 0, <<>>, <<>>, <<>>, FALSE, -1)
    /\ nCloses' = nCloses + 1
    /\ UNCHANGED << frames_after_hit, done, observation, targetA, targetB,
                    hist, nResets, nSteps, rt >>

\* _render
\* a render that fetches the camera image from the simulator
_render_reads_image(mode) ==
    /\ calls' = << Call("get_image", 0, 0) >>
    /\ ret' = PlainResult("render", <<>>)
    /\ UNCHANGED << frames_after_hit, done, observation, venv, targetA, targetB,
                    hist, nResets, nSteps, nCloses, rt >>

_render(mode) ==
    /\ calls' = <<>>
    /\ ret' = PlainResult("render", <<>>)
    /\ UNCHANGED << frames_after_hit, done, observation, venv, targetA, targetB,
                    hist, nResets, nSteps, nCloses, rt >>

Reset == \E noise \in NoiseVectors, reading \in SimReadings : _reset(noise, reading)

Step == \E actions \in ActionVectors, colliding \in BOOLEAN, reading \in SimReadings :
            _step(actions, colliding, reading)

Close == \E tolerated \in BOOLEAN : _close(tolerated)

Render == \E mode \in {"human", "rgb_array"} : _render(mode)

Next == Reset \/ Step \/ Close \/ Render

Spec == Init /\ [][Next]_vars

\* ------------------------------------------------------------------------
\* The normalisation functions on their own: a native angle vector is
\* normalised, and the result is denormalised
\* ------------------------------------------------------------------------
InitNorm ==
    /\ EnvInit
    /\ \E p \in NormInputs : rt = [pc |-> "start", pos |-> p, norm |-> <<>>, out |-> <<>>]

Normalize ==
    /\ rt.pc = "start"
    /\ rt' = [rt EXCEPT !.pc = "normalized", !.norm = _normalize(rt.pos)]
    /\ UNCHANGED envVars

Denormalize ==
    /\ rt.pc = "normalized"
    /\ rt' = [rt EXCEPT !.pc = "done", !.out = _denormalize(rt.norm)]
    /\ UNCHANGED envVars

NextNorm == Normalize \/ Denormalize

SpecNorm == InitNorm /\ [][NextNorm]_vars

\* ------------------------------------------------------------------------
\* Properties
\* ------------------------------------------------------------------------
StepDone == ret.op = "step"

\* the last step returned (did not raise) with this reward
StepReturned(r) == StepDone /\ ~ret.raised /\ ret.reward = r

Scoring == ret.colliding /\ ret.frames_before = -1

limitsF == [i \in Joints |-> << FromInt(JOINT_LIMITS[i][1]), FromInt(JOINT_LIMITS[i][2]) >>]

FOne == FromInt(1)

FMinusOne == FromInt(-1)

\* C1: every step call returns reward 1 exactly when the sensor reports a
\* collision and the counter was -1 when the step began, and then the counter
\* becomes 0; every other step call returns reward 0.
C1_StepRewardRule ==
    StepDone =>
        /\ Scoring => StepReturned(1) /\ frames_after_hit = 0
        /\ ~Scoring => StepReturned(0)

\* C2: between calls the cooldown counter is always one of -1, 0, 1, 2.
C2_CounterRange == frames_after_hit \in {-1, 0, 1, 2}

C2_Witness == StepDone /\ nResets >= 1 /\ frames_after_hit = 2

\* C3: a step in which the swords collide while the counter is >= 0 gives
\* reward 0 and leaves the counter as it was.
C3_CollidingKeepsCounter ==
    StepDone /\ ret.colliding /\ ret.frames_before >= 0 =>
        ret.reward = 0 /\ frames_after_hit = ret.frames_before

Returned(h, r) == ~h.raised /\ h.reward = r

QuietRun(j, k) == j + k <= Len(hist) /\ \A l \in 1..k : ~hist[j + l].colliding

C5_CooldownTrace ==
    \A j \in 1..Len(hist) :
        Returned(hist[j], 1) =>
            /\ hist[j].frames_after_hit = 0
            /\ \A k \in 1..3 :
                  QuietRun(j, k) =>
                      /\ Returned(hist[j + k], 0)
                      /\ hist[j + k].frames_after_hit = << 1, 2, -1 >>[k]
            /\ QuietRun(j, 3) /\ j + 4 <= Len(hist) /\ hist[j + 4].colliding
                  => Returned(hist[j + 4], 1)

C5_Witness ==
    /\ Len(hist) = 5
    /\ Returned(hist[1], 1)
    /\ QuietRun(1, 3)
    /\ hist[5].colliding
    /\ Returned(hist[5], 1)

\* C6: after every reset, whatever the counter was before it, the counter is
\* -1 and the termination flag is false, and a collision on the first step
\* of the new episode scores reward 1.
C6_ResetClears ==
    /\ ret.op = "reset" => frames_after_hit = -1 /\ done = << FALSE >>
    /\ StepDone /\ nResets >= 1 /\ Len(hist) = 1 /\ ret.colliding => StepReturned(1)

\* a reset issued in the middle of a cooldown
C6_Witness == ret.op = "reset" /\ ret.frames_before = 1 /\ frames_after_hit = -1

\* the first step of a second episode scores
C6_FirstStepScores ==
    /\ StepDone
    /\ nResets = 2
    /\ Len(hist) = 1
    /\ ret.colliding
    /\ ret.reward = 1
    /\ nSteps >= 2

\* C7: every step call on a constructed environment, reset or not, returns a
\* termination flag equal to false, and the flag is never true.
C7_StepFlagFalse ==
    /\ StepDone => ~ret.raised /\ ret.done = << FALSE >>
    /\ done # << TRUE >>

\* C8: a step leaves the targets commanded to arm B as they were and issues
\* position-target commands to arm A's motors only.
C8_StepLeavesArmB ==
    [][ nSteps' = nSteps + 1 =>
            /\ targetB' = targetB
            /\ \A c \in 1..Len(calls') :
                  calls'[c][1] = "set_position_target" => calls'[c][2] = ARM_A ]_vars

C8_Witness ==
    /\ StepDone
    /\ Len(hist) >= 2
    /\ targetB \in { randomize(n) : n \in NoiseVectors }
    /\ targetA # [i \in Joints |-> FromInt(REST_POS[i])]

\* C9: for every action vector passed to step and every joint i, the target
\* commanded to arm A's motor i lies in [min_i, max_i]; a component of -1 or
\* below gives min_i and a component of 1 or above gives max_i.
C9_TargetsWithinLimits ==
    StepDone =>
        \A i \in Joints :
            /\ FLe(limitsF[i][1], targetA[i])
            /\ FLe(targetA[i], limitsF[i][2])
            /\ FLe(ret.actions[i], FMinusOne) => targetA[i] = limitsF[i][1]
            /\ FLe(FOne, ret.actions[i]) => targetA[i] = limitsF[i][2]

C9_Witness ==
    /\ StepDone
    /\ \E i \in Joints : FCmp(ret.actions[i], FOne) > 0 /\ targetA[i] = limitsF[i][2]
    /\ \E i \in Joints : FCmp(ret.actions[i], FMinusOne) < 0 /\ targetA[i] = limitsF[i][1]
    /\ \E i \in Joints : FCmp(limitsF[i][1], targetA[i]) < 0 /\ FCmp(targetA[i], limitsF[i][2]) < 0

\* C10 as stated: for every joint i and native angle a in [min_i, max_i],
\* _denormalize(_normalize(a)) is a and _normalize(a) lies in [-1, 1].
NormWithinUnit ==
    \A i \in Joints : FLe(FMinusOne, rt.norm[i]) /\ FLe(rt.norm[i], FOne)

C10_RoundTripExact ==
    rt.pc = "done" => NormWithinUnit /\ \A i \in Joints : rt.out[i] = rt.pos[i]

\* 2^-42 degrees
RoundTripTolerance == FRound(1, << 1 >>, -42, FALSE)

\* C10 amended: _normalize(a) lies in [-1, 1] and _denormalize(_normalize(a))
\* differs from a by no more than 2^-42 degrees (floating-point rounding).
C10_RoundTripClose ==
    rt.pc = "done" =>
        /\ NormWithinUnit
        /\ \A i \in Joints :
              FCmpMag(FSub(rt.out[i], rt.pos[i]), RoundTripTolerance) <= 0

C10_Witness ==
    /\ rt.pc = "done"
    /\ \E i \in Joints : rt.out[i] # rt.pos[i]
    /\ \E i \in Joints : rt.out[i] = rt.pos[i] /\ rt.norm[i] # FMinusOne /\ rt.norm[i] # FOne

C12_RenderFrame ==
    [][ret'.op = "render" =>
          /\ frames_after_hit' = frames_after_hit
          /\ done' = done
          /\ observation' = observation
          /\ venv' = venv
          /\ targetA' = targetA
          /\ targetB' = targetB
          /\ calls' = <<>>]_vars

\* a render in the middle of a cooldown, with an observation stored
C12_Witness ==
    /\ ret.op = "render"
    /\ frames_after_hit >= 0
    /\ observation # <<>>
    /\ done = << FALSE >>
    /\ calls = <<>>

\* C13: after a step that returned reward 1, as long as every following step
\* of the episode reads a collision, no following step returns reward 1.
C13_HoldingNeverPays ==
    \A j \in 1..Len(hist), k \in 1..Len(hist) :
        (/\ j < k
         /\ Returned(hist[j], 1)
         /\ \A l \in (j + 1)..k : hist[l].colliding)
        => ~Returned(hist[k], 1)

\* number of blocking synchronized steps among the calls of the last operation
Advances == Cardinality({ j \in DOMAIN calls : calls[j][1] = "step_blocking_simulation" })

\* C14: a step advances the simulator by exactly one blocking step, a reset
\* by exactly 15, close and render by none; after r resets and s steps the
\* simulator has been advanced 15 * r + s times.
C14_AdvanceCount ==
    /\ venv.steps = 15 * nResets + nSteps
    /\ ret.op = "step" => Advances = 1
    /\ ret.op = "reset" => Advances = 15
    /\ ret.op \in {"close", "render"} => Advances = 0

C14_Witness ==
    /\ nResets = 2
    /\ nSteps >= 3
    /\ venv.steps = 30 + nSteps
    /\ ret.op = "step"

\* position of the first and of the last call of this name in the call log
\* of the last operation (0 when there is none)
FirstCall(name) ==
    IF \E j \in DOMAIN calls : calls[j][1] = name
    THEN CHOOSE j \in DOMAIN calls :
             calls[j][1] = name /\ \A l \in 1..(j - 1) : calls[l][1] # name
    ELSE 0

LastCall(name) ==
    IF \E j \in DOMAIN calls : calls[j][1] = name
    THEN CHOOSE j \in DOMAIN calls :
             calls[j][1] = name /\ \A l \in (j + 1)..Len(calls) : calls[l][1] # name
    ELSE 0

ReadCalls == { "get_joint_angle", "get_joint_velocity", "get_image" }

\* C15: in every step the six arm A targets are commanded, then the
\* simulator is advanced once, then joint state and image are read, then the
\* collision sensor is queried; the observation returned is the one read
\* after that step's advance.
C15_StepOrder ==
    ret.op = "step" =>
        /\ \A i \in Joints : calls[i] = Call("set_position_target", ARM_A, i)
        /\ LastCall("set_position_target") = 6
        /\ FirstCall("step_blocking_simulation") = 7
        /\ LastCall("step_blocking_simulation") = 7
        /\ \A j \in 8..20 : calls[j][1] \in ReadCalls
        /\ LastCall("get_image") = 20
        /\ FirstCall("is_colliding") = 21
        /\ Len(calls) = 21
        /\ observation.cam_image = venv.steps
        /\ ~ret.raised => ret.observation = observation

\* a scoring step that returned, with the frame taken after its advance
C15_Witness ==
    /\ StepReturned(1)
    /\ Len(calls) = 21
    /\ ret.observation.cam_image = venv.steps
    /\ venv.steps = 15 * nResets + nSteps

\* C16: in every reset the simulation is stopped, then started in
\* synchronized mode, then the arm A and the arm B targets are commanded, then
\* the 15 settle steps run, and only then is the observation captured; the
\* observation returned is the one captured after the settle steps.
C16_ResetOrder ==
    ret.op = "reset" =>
        /\ calls[1] = Call("stop_simulation", 0, 0)
        /\ calls[2] = Call("start_simulation_sync", 0, 0)
        /\ \A i \in Joints : calls[2 + i] = Call("set_position_target", ARM_A, i)
        /\ \A i \in Joints : calls[8 + i] = Call("set_position_target", ARM_B, i)
        /\ \A j \in 15..29 : calls[j] = Call("step_blocking_simulation", 0, 0)
        /\ \A j \in 30..42 : calls[j][1] \in ReadCalls
        /\ Len(calls) = 42
        /\ ret.observation = observation
        /\ observation.cam_image = venv.steps

\* a second reset, after steps of a first episode left an observation behind
C16_Witness ==
    /\ ret.op = "reset"
    /\ nResets = 2
    /\ nSteps >= 2
    /\ ret.observation.cam_image = 15 * nResets + nSteps

\* C17: at every reset arm B's motor i is commanded to the rest value 0 plus
\* an offset within the noise range of joint i, (-90,90), (-30,30), (-30,30),
\* (-45,45), (-30,30), (-30,30), and arm A's motor i to the rest value 0.
C17_ResetTargets ==
    /\ RANDOM_NOISE = << << -90, 90 >>, << -30, 30 >>, << -30, 30 >>,
                         << -45, 45 >>, << -30, 30 >>, << -30, 30 >> >>
    /\ ret.op = "reset" =>
        \A i \in Joints :
            /\ targetA[i] = FromInt(0)
            /\ RANDOM_NOISE[i][1] <= targetB[i] - 0
            /\ targetB[i] - 0 <= RANDOM_NOISE[i][2]
            /\ calls[2 + i] = Call("set_position_target", ARM_A, i)
            /\ calls[8 + i] = Call("set_position_target", ARM_B, i)

\* a reset whose offsets sit at the low end for one joint and at the high
\* end for the next
C17_Witness ==
    /\ ret.op = "reset"
    /\ targetB[1] = -90
    /\ targetB[2] = 29
    /\ targetB[4] = 44
    /\ \A i \in Joints : targetA[i] = FromInt(0)

\* number of steps of hist[a..b] that returned reward 1
Hits(a, b) == Cardinality({ l \in a..b : Returned(hist[l], 1) })

\* C18: within an episode two steps that return reward 1 have at least 3
\* steps that return reward 0 between them, whatever the collision readings;
\* over n consecutive steps the total reward is at most ceil(n / 4).
C18_HitSpacing ==
    /\ \A j \in 1..Len(hist), k \in 1..Len(hist) :
          (j < k /\ Returned(hist[j], 1) /\ Returned(hist[k], 1)) =>
              Cardinality({ l \in (j + 1)..(k - 1) : Returned(hist[l], 0) }) >= 3
    /\ \A a \in 1..Len(hist), b \in 1..Len(hist) :
          a <= b => Hits(a, b) <= (b - a + 1 + 3) \div 4

\* two hits of one episode, the second on the fourth step after the first
C18_Witness ==
    \E j \in 1..Len(hist) :
        /\ j + 4 <= Len(hist)
        /\ Returned(hist[j], 1)
        /\ Returned(hist[j + 4], 1)
        /\ Hits(j, j + 4) = 2

====
